---- MODULE Spec2Model ----
(***************************************************************************)
(* A model of the two script includes of the instance-configurator         *)
(* application:                                                            *)
(*   InstanceConfig  (src/InstanceConfig.js)  two-tier property lookup     *)
(*   MCK_MailHelper  (src/mckMailHelper.js)   outbound recipient sanitizer *)
(* The record store (GlideRecord), the system properties (gs.getProperty)  *)
(* and the user directory are the environment: they are chosen in the      *)
(* initial state and never written by the program.                         *)
(***************************************************************************)
EXTENDS Integers, Sequences, FiniteSets, TLC

(***************************************************************************)
(* Values of the record store.  NULL is what GlideRecord.getValue gives    *)
(* for an empty field and what a GlideRecord that loaded no row gives for  *)
(* every field; it is also JavaScript's null in getKey's results.          *)
(***************************************************************************)
NULL == "<null>"

\* Bound of the model: the number of rows the two property tables hold
\* together.
MaxRows == 3

InstanceIds == {"i1", "i2"}
Keys == {"k1", "k2"}
QueryKeys == Keys \cup {"k3"}
OverrideValues == {"v1", NULL}
DefaultValues == {"d1", NULL}

\* All sequences over S of length at most n.
SeqsUpTo(S, n) == UNION {[1..k -> S] : k \in 0..n}

\* Rows of x_448357_instanc_0_instance.
InstanceRows == {[sys_id |-> "i1", name |-> "dev"], [sys_id |-> "i2", name |-> "prod"]}

\* The instance tables of the model: rows in store order, no row twice.
InstanceTables ==
    {t \in SeqsUpTo(InstanceRows, Cardinality(InstanceRows)) :
        \A i, j \in 1..Len(t) : t[i] = t[j] => i = j}

\* Rows of x_448357_instanc_0_property_scope; key is the dot-walked
\* field 'property.key', instance the reference field (NULL when empty).
ScopeRows == [instance : InstanceIds \cup {NULL}, key : Keys, value : OverrideValues]

\* Rows of x_448357_instanc_0_property.
PropertyRows == [key : Keys, default_value : DefaultValues]

\* The values the system property "instance_name" takes in the model.
InstanceNameProps == {"dev", "qa"}

VARIABLES
    instanceTable,   \* rows of x_448357_instanc_0_instance, in store order
    scopeTable,      \* rows of x_448357_instanc_0_property_scope
    propertyTable,   \* rows of x_448357_instanc_0_property
    instanceName,    \* gs.getProperty("instance_name")
    config,          \* the InstanceConfig object
    configCall,      \* the last completed call on config and its result
    receivingAddressesProp,  \* gs.getProperty('mck.email.subProdEmail.ReceivingAddresses')
    receivingGroupIdsProp,   \* gs.getProperty('mck.email.subProdEmail.ReceivingGroupIds')
    userTable,       \* rows of sys_user, with what gs.getUserByID resolves them to
    helper,          \* the MCK_MailHelper object
    mailCall,        \* the last completed call on helper and its result
    threads,         \* the calls running at the same time, each with its locals
    schedule         \* the threads in the order their steps were taken

configVars == <<instanceTable, scopeTable, propertyTable, instanceName, config, configCall>>

mailVars == <<receivingAddressesProp, receivingGroupIdsProp, userTable, helper, mailCall>>

threadVars == <<threads, schedule>>

vars == <<configVars, mailVars, threadVars>>

(***************************************************************************)
(* GlideRecord                                                             *)
(***************************************************************************)

\* A GlideRecord positioned on no row: getValue and getUniqueValue give null.
NoRecord == [sys_id |-> NULL, name |-> NULL]

\* get without its condition: the table's first row, whatever its name.
GlideGetFirstRow(table, value) ==
    IF Len(table) > 0 THEN table[1] ELSE NoRecord

\* new GlideRecord(instance table).get('name', value): the first row whose
\* name equals value, or a record positioned on no row.
GlideGetByName(table, value) ==
    LET Match(r) == r.name = value
        rows == SelectSeq(table, Match)
    IN  IF Len(rows) > 0 THEN rows[1] ELSE NoRecord

(***************************************************************************)
(* InstanceConfig                                                          *)
(***************************************************************************)

\* The object before initialize ran.
NoConfig == [constructed |-> FALSE, instanceId |-> NULL, instance |-> NoRecord]

\* _lookup without the addQuery on 'instance': any instance's row matches.
LookupAnyInstance(cfg, key) ==
    LET Match(r) == r.key = key
        rows == SelectSeq(scopeTable, Match)
    IN  IF Len(rows) > 0 THEN rows[1].value ELSE NULL

\* addQuery('instance', uid); addQuery('property.key', key); query();
\* hasNext/next/getValue('value'): the first matching row's value, else null.
Lookup(cfg, key) ==
    LET Match(r) == r.instance = cfg.instance.sys_id /\ r.key = key
        rows == SelectSeq(scopeTable, Match)
    IN  IF Len(rows) > 0 THEN rows[1].value ELSE NULL

\* _getDefault without the addQuery on 'key': the table's first row.
GetDefaultAnyKey(key) ==
    IF Len(propertyTable) > 0 THEN propertyTable[1].default_value ELSE NULL

\* addQuery('key', key); query(); the first matching row's default_value.
GetDefault(key) ==
    LET Match(r) == r.key = key
        rows == SelectSeq(propertyTable, Match)
    IN  IF Len(rows) > 0 THEN rows[1].default_value ELSE NULL

\* getKey with a guard that gives null for a null or empty key.
GetKeyRejectEmpty(cfg, key) ==
    IF key \in {NULL, ""} THEN NULL
    ELSE LET value == Lookup(cfg, key)
         IN  IF value # NULL THEN value ELSE GetDefault(key)

GetKey(cfg, key) ==
    LET value == Lookup(cfg, key)
    IN  IF value # NULL THEN value ELSE GetDefault(key)

GetName(cfg) == cfg.instance.name

NoCall == [op |-> "none", key |-> NULL, result |-> NULL]

(***************************************************************************)
(* Strings of the mail helper are sequences of one-character strings.  A   *)
(* value that may be null or absent is a record: null says whether it is,  *)
(* v holds the value when it is not.                                       *)
(***************************************************************************)
Null == [null |-> TRUE, v |-> <<>>]
Some(x) == [null |-> FALSE, v |-> x]

\* Bound of the model: the size of a recipient list, counted as the tokens
\* of its recipients plus the boundaries between them.
MaxInput == 4

\* _emailModifier
EmailModifier == <<".", "t", "e", "s", "t">>

\* The pieces recipient strings are built from.
Tokens == {<<"a">>, <<"A">>, EmailModifier, <<"<">>, <<">">>}

\* The boundary between two recipients of a list.
Boundary == <<"|">>

RECURSIVE Flatten(_)
\* The concatenation of a sequence of strings.
Flatten(ss) == IF ss = <<>> THEN <<>> ELSE Head(ss) \o Flatten(Tail(ss))

RECURSIVE SplitAt(_, _)
\* The runs of xs between the occurrences of the element sep.
SplitAt(xs, sep) ==
    IF \A i \in 1..Len(xs) : xs[i] # sep THEN <<xs>>
    ELSE LET i == CHOOSE k \in 1..Len(xs) :
                      xs[k] = sep /\ \A m \in 1..(k - 1) : xs[m] # sep
         IN  <<SubSeq(xs, 1, i - 1)>> \o SplitAt(SubSeq(xs, i + 1, Len(xs)), sep)

\* The recipient list a sequence of tokens and boundaries spells.
ListOf(symbols) ==
    LET runs == SplitAt(symbols, Boundary)
    IN  [i \in 1..Len(runs) |-> Flatten(runs[i])]

\* The arguments of addTestToAddresses in the model: null, the empty list
\* and every list of recipients of size at most MaxInput.
RecipientArgs ==
    {Null, Some(<<>>)}
        \cup {Some(ListOf(x)) : x \in SeqsUpTo(Tokens \cup {Boundary}, MaxInput)}

\* The values of the whitelist property in the model.
ReceivingAddressesProps ==
    {Null, Some(<<>>), Some(<<"A">>), Some(<<"B", "a">>), Some(<<"B", ",", "a", "A">>)}

G1 == <<"g", "1">>
G2 == <<"g", "2">>

\* The values of the exempt-group property in the model.
ReceivingGroupIdsProps == {Null, Some(G1), Some(G1 \o <<",">> \o G2)}

\* The sys_ids of the users of the model, in the order sys_user stores
\* their rows.
UserIds == <<"u1", "u2">>

\* Rows of sys_user: resolves says whether gs.getUserByID gives a user for
\* the row's sys_id, groups are the groups that user isMemberOf.
UserRows ==
    {r \in [sys_id : {UserIds[i] : i \in 1..Len(UserIds)}, email : {<<"a">>},
            resolves : BOOLEAN, groups : SUBSET {G1, G2}] :
        ~r.resolves => r.groups = {}}

\* The user directories of the model: sys_id is the key of sys_user, and
\* nothing keeps two users from having the same email.
UserTables ==
    {t \in SeqsUpTo(UserRows, Len(UserIds)) :
        \A i \in 1..Len(t) : t[i].sys_id = UserIds[i]}

\* Two users share an email only where no whitelist and both groups are
\* configured.
SharedEmailEnvironment(whitelist, groupIds, users) ==
    Len(users) > 1 => whitelist = Null /\ groupIds = Some(G1 \o <<",">> \o G2)

(***************************************************************************)
(* JavaScript string functions                                             *)
(***************************************************************************)

\* Whether sub occurs in s at the 0-based position i.
OccursAt(s, sub, i) ==
    /\ i + Len(sub) <= Len(s)
    /\ \A k \in 1..Len(sub) : s[i + k] = sub[k]

\* String.prototype.indexOf: the first 0-based position of sub in s, or -1.
IndexOf(s, sub) ==
    IF \E i \in 0..Len(s) : OccursAt(s, sub, i)
    THEN CHOOSE i \in 0..Len(s) :
            OccursAt(s, sub, i) /\ \A j \in 0..(i - 1) : ~OccursAt(s, sub, j)
    ELSE -1

\* The lower-case letter of each upper-case letter (the strings of the
\* model are ASCII).
LowerCaseOf ==
    [A |-> "a", B |-> "b", C |-> "c", D |-> "d", E |-> "e", F |-> "f",
     G |-> "g", H |-> "h", I |-> "i", J |-> "j", K |-> "k", L |-> "l",
     M |-> "m", N |-> "n", O |-> "o", P |-> "p", Q |-> "q", R |-> "r",
     S |-> "s", T |-> "t", U |-> "u", V |-> "v", W |-> "w", X |-> "x",
     Y |-> "y", Z |-> "z"]

\* The lower-case form of one character: toLowerCase of a one-character
\* string.
LowerChar(c) == IF c \in DOMAIN LowerCaseOf THEN LowerCaseOf[c] ELSE c

\* String.prototype.toLowerCase
ToLowerCase(s) == [i \in 1..Len(s) |-> LowerChar(s[i])]

\* String.prototype.split(',') of a non-empty string.
SplitComma(s) == SplitAt(s, ",")

RECURSIVE JoinComma(_)
\* Array.prototype.join(',')
JoinComma(list) ==
    IF Len(list) = 0 THEN <<>>
    ELSE IF Len(list) = 1 THEN list[1]
    ELSE list[1] \o <<",">> \o JoinComma(Tail(list))

\* The grave accent character (U+0060), which a TLA+ string cannot hold.
GraveAccent == "grave"

RECURSIVE ExpandReplacement(_, _, _, _)
\* The replacement text String.prototype.replace substitutes for a match
\* of a string pattern: in replacement, '$$' stands for '$', '$&' for the
\* matched text, '$' and a grave accent for the text before the match and
\* "$'" for the text after it; any other character, a '$' before another
\* character or at the end included, stands for itself.
ExpandReplacement(replacement, matched, before, after) ==
    IF replacement = <<>> THEN <<>>
    ELSE IF replacement[1] = "$" /\ Len(replacement) >= 2
                /\ replacement[2] \in {"$", "&", GraveAccent, "'"}
    THEN LET rest == SubSeq(replacement, 3, Len(replacement))
             text == CASE replacement[2] = "$" -> <<"$">>
                       [] replacement[2] = "&" -> matched
                       [] replacement[2] = GraveAccent -> before
                       [] OTHER -> after
         IN  text \o ExpandReplacement(rest, matched, before, after)
    ELSE <<replacement[1]>> \o ExpandReplacement(Tail(replacement), matched, before, after)

\* String.prototype.replace(pattern, replacement) with a string pattern:
\* the first occurrence of pattern is replaced by the expanded replacement.
ReplaceFirst(s, pattern, replacement) ==
    LET i == IndexOf(s, pattern)
    IN  IF i = -1 THEN s
        ELSE LET before == SubSeq(s, 1, i)
                 after == SubSeq(s, i + Len(pattern) + 1, Len(s))
             IN  before \o ExpandReplacement(replacement, pattern, before, after) \o after

\* emailString.match(/<([^>]*)>/i): the 1-based positions <<i, j>> of the
\* first '<' that a '>' follows and of the first '>' after it, or <<0, 0>>.
EmailRegexMatch(s) ==
    LET Opens == {i \in 1..Len(s) : s[i] = "<" /\ \E j \in (i + 1)..Len(s) : s[j] = ">"}
    IN  IF Opens = {} THEN <<0, 0>>
        ELSE LET i == CHOOSE x \in Opens : \A y \in Opens : x <= y
                 j == CHOOSE x \in (i + 1)..Len(s) :
                          s[x] = ">" /\ \A y \in (i + 1)..(x - 1) : s[y] # ">"
             IN  <<i, j>>

(***************************************************************************)
(* MCK_MailHelper                                                          *)
(***************************************************************************)

\* _extractEmailAddress giving the empty string when the pattern does not
\* match.
ExtractEmailAddressOrEmpty(emailString) ==
    LET m == EmailRegexMatch(emailString)
    IN  IF m[1] # 0 THEN SubSeq(emailString, m[1] + 1, m[2] - 1) ELSE <<>>

ExtractEmailAddress(emailString) ==
    LET m == EmailRegexMatch(emailString)
    IN  IF m[1] # 0 THEN SubSeq(emailString, m[1] + 1, m[2] - 1) ELSE emailString

ModifyRecipient(originalEmailAddress, separatedEmail) ==
    IF separatedEmail # <<>>
    THEN ReplaceFirst(originalEmailAddress, separatedEmail, separatedEmail \o EmailModifier)
    ELSE originalEmailAddress \o EmailModifier

\* _shouldSkipModification without toLowerCase on the address.
ShouldSkipModificationCaseSensitive(emailAddress, receivingAddresses) ==
    LET isAlreadyModified == IndexOf(emailAddress, EmailModifier) # -1
        isWhitelisted == IndexOf(receivingAddresses, emailAddress) # -1
    IN  isAlreadyModified \/ isWhitelisted

\* _shouldSkipModification without the already-modified test.
ShouldSkipModificationWhitelistOnly(emailAddress, receivingAddresses) ==
    IndexOf(receivingAddresses, ToLowerCase(emailAddress)) # -1

\* _shouldSkipModification that takes an empty whitelist string for no
\* whitelist: nothing is contained in it.
ShouldSkipModificationEmptyWhitelistGuard(emailAddress, receivingAddresses) ==
    LET isAlreadyModified == IndexOf(emailAddress, EmailModifier) # -1
        isWhitelisted == /\ receivingAddresses # <<>>
                         /\ IndexOf(receivingAddresses, ToLowerCase(emailAddress)) # -1
    IN  isAlreadyModified \/ isWhitelisted

\* _shouldSkipModification with the containment test the other way round:
\* the whitelist string looked for inside the address.
ShouldSkipModificationEntryInAddress(emailAddress, receivingAddresses) ==
    LET isAlreadyModified == IndexOf(emailAddress, EmailModifier) # -1
        isWhitelisted == /\ receivingAddresses # <<>>
                         /\ IndexOf(ToLowerCase(emailAddress), receivingAddresses) # -1
    IN  isAlreadyModified \/ isWhitelisted

ShouldSkipModification(emailAddress, receivingAddresses) ==
    LET isAlreadyModified == IndexOf(emailAddress, EmailModifier) # -1
        isWhitelisted == IndexOf(receivingAddresses, ToLowerCase(emailAddress)) # -1
    IN  isAlreadyModified \/ isWhitelisted

\* userRecord.get('email', emailAddress), which gives the first row of
\* sys_user with that email, gs.getUserByID, then the loop over
\* receivingGroupIds, which returns at the first group the user is in.
IsUserInAuthorizedGroup(emailAddress, receivingGroupIds) ==
    LET Match(r) == r.email = emailAddress
        rows == SelectSeq(userTable, Match)
    IN  IF Len(rows) = 0 THEN FALSE
        ELSE IF ~rows[1].resolves THEN FALSE
        ELSE \E i \in 1..Len(receivingGroupIds) : receivingGroupIds[i] \in rows[1].groups

\* A call the helper makes on the user directory: get on sys_user by
\* email, gs.getUserByID by sys_id, user.isMemberOf by group id.
DirectoryCall(call, arg) == [call |-> call, arg |-> arg]

RECURSIVE MembershipLoopNoReturn(_, _, _, _)
\* The loop of _isUserInAuthorizedGroup without return inside it: every
\* group id is tested.
MembershipLoopNoReturn(groups, receivingGroupIds, i, calls) ==
    IF i > Len(receivingGroupIds)
    THEN [result |-> \E k \in 1..Len(receivingGroupIds) : receivingGroupIds[k] \in groups,
          calls |-> calls]
    ELSE MembershipLoopNoReturn(groups, receivingGroupIds, i + 1,
                                Append(calls, DirectoryCall("isMemberOf", receivingGroupIds[i])))

RECURSIVE MembershipLoop(_, _, _, _)
\* The for loop of _isUserInAuthorizedGroup from index i on, for a user
\* who isMemberOf groups: what it returns and the calls made, after calls.
MembershipLoop(groups, receivingGroupIds, i, calls) ==
    IF i > Len(receivingGroupIds) THEN [result |-> FALSE, calls |-> calls]
    ELSE LET made == Append(calls, DirectoryCall("isMemberOf", receivingGroupIds[i]))
         IN  IF receivingGroupIds[i] \in groups
             THEN [result |-> TRUE, calls |-> made]
             ELSE MembershipLoop(groups, receivingGroupIds, i + 1, made)

\* _isUserInAuthorizedGroup call by call: what it returns and the
\* directory calls it makes.
IsUserInAuthorizedGroupRun(emailAddress, receivingGroupIds) ==
    LET Match(r) == r.email = emailAddress
        rows == SelectSeq(userTable, Match)
        get == <<DirectoryCall("get", emailAddress)>>
    IN  IF Len(rows) = 0 THEN [result |-> FALSE, calls |-> get]
        ELSE LET byId == Append(get, DirectoryCall("getUserByID", <<rows[1].sys_id>>))
             IN  IF ~rows[1].resolves THEN [result |-> FALSE, calls |-> byId]
                 ELSE MembershipLoop(rows[1].groups, receivingGroupIds, 1, byId)

\* _processRecipient call by call: the directory calls made for one
\* recipient.
ProcessRecipientCalls(userEmail, receivingAddresses, receivingGroupIds) ==
    LET extractedEmail == ExtractEmailAddress(userEmail)
    IN  IF ShouldSkipModification(extractedEmail, receivingAddresses) THEN <<>>
        ELSE IsUserInAuthorizedGroupRun(extractedEmail, receivingGroupIds).calls

ProcessRecipient(userEmail, receivingAddresses, receivingGroupIds) ==
    LET extractedEmail == ExtractEmailAddress(userEmail)
    IN  IF ShouldSkipModification(extractedEmail, receivingAddresses) THEN userEmail
        ELSE IF IsUserInAuthorizedGroup(extractedEmail, receivingGroupIds) THEN userEmail
        ELSE ModifyRecipient(userEmail, extractedEmail)

GetReceivingAddresses ==
    IF receivingAddressesProp.null \/ receivingAddressesProp.v = <<>>
    THEN <<>>
    ELSE ToLowerCase(receivingAddressesProp.v)

GetReceivingGroupIds ==
    IF receivingGroupIdsProp.null \/ receivingGroupIdsProp.v = <<>>
    THEN <<>>
    ELSE SplitComma(receivingGroupIdsProp.v)

RECURSIVE ProcessLoop(_, _, _, _, _)
\* The for loop of addTestToAddresses from index i on: processedRecipients
\* after it.
ProcessLoop(recipients, i, processedRecipients, receivingAddresses, receivingGroupIds) ==
    IF i > Len(recipients) THEN processedRecipients
    ELSE ProcessLoop(recipients, i + 1,
                     Append(processedRecipients,
                            ProcessRecipient(recipients[i], receivingAddresses, receivingGroupIds)),
                     receivingAddresses, receivingGroupIds)

\* What a call ends with: threw (a TypeError), the processedRecipients
\* array when it returned, and the string returned.
Returned(processed, result) == [threw |-> FALSE, processed |-> processed, result |-> result]
Threw == [threw |-> TRUE, processed |-> <<>>, result |-> <<>>]

\* addTestToAddresses with its loop starting at the second recipient.
AddTestToAddressesSkipFirst(recipients) ==
    IF recipients.null \/ Len(recipients.v) = 0 THEN Returned(<<>>, <<>>)
    ELSE LET processedRecipients ==
                 ProcessLoop(recipients.v, 2, <<>>, GetReceivingAddresses, GetReceivingGroupIds)
         IN  Returned(processedRecipients, JoinComma(processedRecipients))

\* addTestToAddresses without the !recipients test: reading length of
\* null throws.
AddTestToAddressesNoNullTest(recipients) ==
    IF recipients.null THEN Threw
    ELSE IF Len(recipients.v) = 0 THEN Returned(<<>>, <<>>)
    ELSE LET processedRecipients ==
                 ProcessLoop(recipients.v, 1, <<>>, GetReceivingAddresses, GetReceivingGroupIds)
         IN  Returned(processedRecipients, JoinComma(processedRecipients))

AddTestToAddresses(recipients) ==
    IF recipients.null \/ Len(recipients.v) = 0 THEN Returned(<<>>, <<>>)
    ELSE LET processedRecipients ==
                 ProcessLoop(recipients.v, 1, <<>>, GetReceivingAddresses, GetReceivingGroupIds)
         IN  Returned(processedRecipients, JoinComma(processedRecipients))

\* _processRecipient call by call: the arguments of the modifyRecipient
\* calls made for one recipient (none or one).
ProcessRecipientModifyCalls(userEmail, receivingAddresses, receivingGroupIds) ==
    LET extractedEmail == ExtractEmailAddress(userEmail)
    IN  IF ShouldSkipModification(extractedEmail, receivingAddresses) THEN <<>>
        ELSE IF IsUserInAuthorizedGroup(extractedEmail, receivingGroupIds) THEN <<>>
        ELSE << <<userEmail, extractedEmail>> >>

\* The modifyRecipient calls of one addTestToAddresses call, recipient by
\* recipient.
AddTestToAddressesModifyCalls(recipients) ==
    IF recipients.null \/ Len(recipients.v) = 0 THEN <<>>
    ELSE [i \in 1..Len(recipients.v) |->
             ProcessRecipientModifyCalls(recipients.v[i], GetReceivingAddresses,
                                         GetReceivingGroupIds)]

\* The directory calls of one addTestToAddresses call, recipient by
\* recipient.
AddTestToAddressesCalls(recipients) ==
    IF recipients.null \/ Len(recipients.v) = 0 THEN <<>>
    ELSE [i \in 1..Len(recipients.v) |->
             ProcessRecipientCalls(recipients.v[i], GetReceivingAddresses, GetReceivingGroupIds)]

NoMailCall == [op |-> "none", recipients |-> Null, outcome |-> Returned(<<>>, <<>>)]

\* No calls run at the same time: one caller makes one call after another.
ThreadsIdle ==
    /\ threads = <<>>
    /\ schedule = <<>>

\* The mail helper's part of the state while only InstanceConfig runs.
MailIdle ==
    /\ receivingAddressesProp = Null
    /\ receivingGroupIdsProp = Null
    /\ userTable = <<>>
    /\ helper = FALSE
    /\ mailCall = NoMailCall

\* The resolver's part of the state while only the mail helper runs.
ConfigIdle ==
    /\ instanceTable = <<>>
    /\ scopeTable = <<>>
    /\ propertyTable = <<>>
    /\ instanceName = NULL
    /\ config = NoConfig
    /\ configCall = NoCall


InitConfig ==
    /\ instanceTable \in InstanceTables
    /\ scopeTable \in SeqsUpTo(ScopeRows, MaxRows)
    /\ propertyTable \in SeqsUpTo(PropertyRows, MaxRows - Len(scopeTable))
    /\ instanceName \in InstanceNameProps
    /\ config = NoConfig
    /\ configCall = NoCall
    /\ MailIdle
    /\ ThreadsIdle

\* new InstanceConfig()
Initialize ==
    /\ ~config.constructed
    /\ config' = [constructed |-> TRUE,
                  instanceId |-> instanceName,
                  instance |-> GlideGetByName(instanceTable, instanceName)]
    /\ UNCHANGED <<instanceTable, scopeTable, propertyTable, instanceName, configCall,
                   mailVars, threadVars>>

\* config.getName()
GetNameCall ==
    /\ config.constructed
    /\ configCall' = [op |-> "getName", key |-> NULL, result |-> GetName(config)]
    /\ UNCHANGED <<instanceTable, scopeTable, propertyTable, instanceName, config,
                   mailVars, threadVars>>

\* getKey that also drops the instance record the resolver captured.
GetKeyCallDroppingInstance ==
    /\ config.constructed
    /\ \E key \in QueryKeys :
          configCall' = [op |-> "getKey", key |-> key, result |-> GetKey(config, key)]
    /\ config' = [config EXCEPT !.instance = NoRecord]
    /\ UNCHANGED <<instanceTable, scopeTable, propertyTable, instanceName,
                   mailVars, threadVars>>

\* config.getKey(key)
GetKeyCall ==
    /\ config.constructed
    /\ \E key \in QueryKeys :
          configCall' = [op |-> "getKey", key |-> key, result |-> GetKey(config, key)]
    /\ UNCHANGED <<instanceTable, scopeTable, propertyTable, instanceName, config,
                   mailVars, threadVars>>

NextConfig == Initialize \/ GetNameCall \/ GetKeyCall

SpecConfig == InitConfig /\ [][NextConfig]_vars

InitMail ==
    /\ receivingAddressesProp \in ReceivingAddressesProps
    /\ receivingGroupIdsProp \in ReceivingGroupIdsProps
    /\ userTable \in UserTables
    /\ SharedEmailEnvironment(receivingAddressesProp, receivingGroupIdsProp, userTable)
    /\ helper = FALSE
    /\ mailCall = NoMailCall
    /\ ConfigIdle
    /\ ThreadsIdle

\* new MCK_MailHelper()
InitializeHelper ==
    /\ ~helper
    /\ helper' = TRUE
    /\ UNCHANGED <<receivingAddressesProp, receivingGroupIdsProp, userTable, mailCall,
                   configVars, threadVars>>

\* helper.addTestToAddresses(recipients), called when no result is pending
AddTestToAddressesCall ==
    /\ helper
    /\ mailCall = NoMailCall
    /\ \E recipients \in RecipientArgs :
          mailCall' = [op |-> "addTestToAddresses", recipients |-> recipients,
                       outcome |-> AddTestToAddresses(recipients)]
    /\ UNCHANGED <<receivingAddressesProp, receivingGroupIdsProp, userTable, helper,
                   configVars, threadVars>>

\* The arguments and the result of the example in modifyRecipient's
\* documentation: 'John Doe <john@company.com>', 'john@company.com' and
\* 'John Doe <john@company.test.com>'.
DocExampleOriginal ==
    <<"J", "o", "h", "n", " ", "D", "o", "e", " ", "<", "j", "o", "h", "n",
      "@", "c", "o", "m", "p", "a", "n", "y", ".", "c", "o", "m", ">">>

DocExampleSeparated ==
    <<"j", "o", "h", "n", "@", "c", "o", "m", "p", "a", "n", "y", ".", "c",
      "o", "m">>

DocExampleResult ==
    <<"J", "o", "h", "n", " ", "D", "o", "e", " ", "<", "j", "o", "h", "n",
      "@", "c", "o", "m", "p", "a", "n", "y", ".", "t", "e", "s", "t", ".",
      "c", "o", "m", ">">>

\* The arguments of modifyRecipient in the model: the documentation's
\* example, and short strings with each of no address, the address "a"
\* and the address _extractEmailAddress gives.
ModifyRecipientArgs ==
    {<<DocExampleOriginal, DocExampleSeparated>>}
        \cup {<<Flatten(x), s>> : x \in SeqsUpTo(Tokens, 2), s \in {<<>>, <<"a">>}}
        \cup {<<Flatten(x), ExtractEmailAddress(Flatten(x))>> : x \in SeqsUpTo(Tokens, 2)}

\* helper.modifyRecipient(originalEmailAddress, separatedEmail)
ModifyRecipientCall ==
    /\ helper
    /\ mailCall = NoMailCall
    /\ \E args \in ModifyRecipientArgs :
          mailCall' = [op |-> "modifyRecipient",
                       originalEmailAddress |-> args[1],
                       separatedEmail |-> args[2],
                       result |-> ModifyRecipient(args[1], args[2])]
    /\ UNCHANGED <<receivingAddressesProp, receivingGroupIdsProp, userTable, helper,
                   configVars, threadVars>>

\* The caller takes the returned string; the helper can be called again.
TakeResult ==
    /\ mailCall # NoMailCall
    /\ mailCall' = NoMailCall
    /\ UNCHANGED <<receivingAddressesProp, receivingGroupIdsProp, userTable, helper,
                   configVars, threadVars>>

NextMail ==
    InitializeHelper \/ AddTestToAddressesCall \/ ModifyRecipientCall \/ TakeResult

SpecMail == InitMail /\ [][NextMail]_vars


(***************************************************************************)
(* The skip rules with the directory calls of each recipient recorded      *)
(***************************************************************************)

InitMailRules ==
    /\ receivingAddressesProp \in {Null, Some(<<>>), Some(<<"A">>), Some(<<"B", "a">>)}
    /\ receivingGroupIdsProp = Some(G1 \o <<",">> \o G2)
    /\ userTable \in UserTables
    /\ SharedEmailEnvironment(receivingAddressesProp, receivingGroupIdsProp, userTable)
    /\ helper = FALSE
    /\ mailCall = NoMailCall
    /\ ConfigIdle
    /\ ThreadsIdle

\* helper.addTestToAddresses(recipients), its directory calls recorded
AddTestToAddressesTracedCall ==
    /\ helper
    /\ mailCall = NoMailCall
    /\ \E recipients \in RecipientArgs :
          mailCall' = [op |-> "addTestToAddresses", recipients |-> recipients,
                       outcome |-> AddTestToAddresses(recipients),
                       calls |-> AddTestToAddressesCalls(recipients),
                       modifyCalls |-> AddTestToAddressesModifyCalls(recipients)]
    /\ UNCHANGED <<receivingAddressesProp, receivingGroupIdsProp, userTable, helper,
                   configVars, threadVars>>

NextMailRules == InitializeHelper \/ AddTestToAddressesTracedCall \/ TakeResult

SpecMailRules == InitMailRules /\ [][NextMailRules]_vars

(***************************************************************************)
(* The result of addTestToAddresses passed to addTestToAddresses again     *)
(***************************************************************************)

InitMailTwice ==
    /\ receivingAddressesProp \in {Null, Some(<<"A">>), Some(<<"B", "a">>)}
    /\ receivingGroupIdsProp = Some(G1 \o <<",">> \o G2)
    /\ userTable \in UserTables
    /\ helper = FALSE
    /\ mailCall = NoMailCall
    /\ ConfigIdle
    /\ ThreadsIdle

\* helper.addTestToAddresses(processed), processed being the recipients
\* the call before produced from the list first
SanitizeAgainCall ==
    /\ helper
    /\ mailCall.op = "addTestToAddresses"
    /\ "first" \notin DOMAIN mailCall
    /\ ~mailCall.outcome.threw
    /\ LET recipients == Some(mailCall.outcome.processed)
       IN  mailCall' = [op |-> "addTestToAddresses", recipients |-> recipients,
                        outcome |-> AddTestToAddresses(recipients),
                        first |-> mailCall.recipients]
    /\ UNCHANGED <<receivingAddressesProp, receivingGroupIdsProp, userTable, helper,
                   configVars, threadVars>>

NextMailTwice ==
    InitializeHelper \/ AddTestToAddressesCall \/ SanitizeAgainCall \/ TakeResult

SpecMailTwice == InitMailTwice /\ [][NextMailTwice]_vars

(***************************************************************************)
(* Recipients with the characters String.prototype.replace gives a meaning *)
(* in a replacement text                                                   *)
(***************************************************************************)

\* The pieces these recipient strings are built from.
DollarTokens == {<<"a">>, <<"$">>, <<"&">>, <<"'">>, <<GraveAccent>>, <<"<">>, <<">">>}

DollarRecipientArgs ==
    {Some(ListOf(x)) : x \in SeqsUpTo(DollarTokens \cup {Boundary}, MaxInput)}

InitMailDollar ==
    /\ receivingAddressesProp \in {Null, Some(<<"a">>)}
    /\ receivingGroupIdsProp \in {Null, Some(G1)}
    /\ userTable \in UserTables
    /\ helper = FALSE
    /\ mailCall = NoMailCall
    /\ ConfigIdle
    /\ ThreadsIdle

\* helper.addTestToAddresses(recipients) with such recipients
AddTestToDollarAddressesCall ==
    /\ helper
    /\ mailCall = NoMailCall
    /\ \E recipients \in DollarRecipientArgs :
          mailCall' = [op |-> "addTestToAddresses", recipients |-> recipients,
                       outcome |-> AddTestToAddresses(recipients)]
    /\ UNCHANGED <<receivingAddressesProp, receivingGroupIdsProp, userTable, helper,
                   configVars, threadVars>>

NextMailDollar == InitializeHelper \/ AddTestToDollarAddressesCall \/ TakeResult

SpecMailDollar == InitMailDollar /\ [][NextMailDollar]_vars

(***************************************************************************)
(* getKey(null) and getKey(""): a store whose rows may have null or the    *)
(* empty string as key, queried with those keys                            *)
(***************************************************************************)

\* The keys of rows and of calls: null, the empty string and a usual key.
LiteralKeys == {NULL, "", "k1"}

LiteralScopeRows ==
    [instance : InstanceIds \cup {NULL}, key : LiteralKeys, value : OverrideValues]

LiteralPropertyRows == [key : LiteralKeys, default_value : DefaultValues]

InitLiteralKey ==
    /\ instanceTable \in InstanceTables
    /\ scopeTable \in SeqsUpTo(LiteralScopeRows, MaxRows - 1)
    /\ propertyTable \in SeqsUpTo(LiteralPropertyRows, MaxRows - 1 - Len(scopeTable))
    /\ instanceName \in InstanceNameProps
    /\ config = NoConfig
    /\ configCall = NoCall
    /\ MailIdle
    /\ ThreadsIdle

\* config.getKey(null), config.getKey(""), config.getKey("k1")
GetLiteralKeyCall ==
    /\ config.constructed
    /\ \E key \in LiteralKeys :
          configCall' = [op |-> "getKey", key |-> key, result |-> GetKey(config, key)]
    /\ UNCHANGED <<instanceTable, scopeTable, propertyTable, instanceName, config,
                   mailVars, threadVars>>

NextLiteralKey == Initialize \/ GetLiteralKeyCall

SpecLiteralKey == InitLiteralKey /\ [][NextLiteralKey]_vars

(***************************************************************************)
(* getKey on a record store whose queries can fail                         *)
(***************************************************************************)

ScopeTableName == "x_448357_instanc_0_property_scope"
PropertyTableName == "x_448357_instanc_0_property"

\* The error query() on a table throws when the store fails.
StoreError(table) == [error |-> "query failed", table |-> table]

\* Which query of a getKey call the store fails: 0 is none, 1 the query of
\* _lookup, 2 the query of _getDefault.
Faults == 0..2

\* What a getKey call ends with: the value returned or the error thrown,
\* and the tables it queried, in order.
KeyReturned(value, queries) ==
    [threw |-> FALSE, error |-> NULL, result |-> value, queries |-> queries]
KeyThrew(error, queries) ==
    [threw |-> TRUE, error |-> error, result |-> NULL, queries |-> queries]

\* getKey with a try/catch around _lookup that treats a failed query as
\* "no override".
GetKeyRunCatching(cfg, key, fault) ==
    LET value == IF fault = 1 THEN NULL ELSE Lookup(cfg, key)
    IN  IF value # NULL THEN KeyReturned(value, <<ScopeTableName>>)
        ELSE IF fault = 2
        THEN KeyThrew(StoreError(PropertyTableName), <<ScopeTableName, PropertyTableName>>)
        ELSE KeyReturned(GetDefault(key), <<ScopeTableName, PropertyTableName>>)

\* getKey, query by query: _lookup's query(), which throws when the store
\* fails it; the return of a non-null value; _getDefault's query(), which
\* throws when the store fails it; the return of the default.  Nothing in
\* getKey, _lookup or _getDefault catches.
GetKeyRun(cfg, key, fault) ==
    IF fault = 1 THEN KeyThrew(StoreError(ScopeTableName), <<ScopeTableName>>)
    ELSE LET value == Lookup(cfg, key)
         IN  IF value # NULL THEN KeyReturned(value, <<ScopeTableName>>)
             ELSE IF fault = 2
             THEN KeyThrew(StoreError(PropertyTableName),
                           <<ScopeTableName, PropertyTableName>>)
             ELSE KeyReturned(GetDefault(key), <<ScopeTableName, PropertyTableName>>)

InitStoreFailure ==
    /\ instanceTable \in InstanceTables
    /\ scopeTable \in SeqsUpTo(ScopeRows, MaxRows - 1)
    /\ propertyTable \in SeqsUpTo(PropertyRows, MaxRows - 1 - Len(scopeTable))
    /\ instanceName \in InstanceNameProps
    /\ config = NoConfig
    /\ configCall = NoCall
    /\ MailIdle
    /\ ThreadsIdle

\* config.getKey(key) while the store fails the query numbered fault
GetKeyFaultCall ==
    /\ config.constructed
    /\ \E key \in QueryKeys, fault \in Faults :
          configCall' = [op |-> "getKey", key |-> key, fault |-> fault,
                         run |-> GetKeyRun(config, key, fault)]
    /\ UNCHANGED <<instanceTable, scopeTable, propertyTable, instanceName, config,
                   mailVars, threadVars>>

NextStoreFailure == Initialize \/ GetKeyFaultCall

SpecStoreFailure == InitStoreFailure /\ [][NextStoreFailure]_vars

(***************************************************************************)
(* The resolver and the mail helper used by one caller, call after call    *)
(***************************************************************************)

InitReadOnly ==
    /\ instanceTable \in {<<>>, <<[sys_id |-> "i1", name |-> "dev"]>>}
    /\ scopeTable \in {<<>>, <<[instance |-> "i1", key |-> "k1", value |-> "v1"]>>}
    /\ propertyTable \in {<<>>, <<[key |-> "k1", default_value |-> "d1"]>>}
    /\ instanceName = "dev"
    /\ config = NoConfig
    /\ configCall = NoCall
    /\ receivingAddressesProp = Some(<<"A">>)
    /\ receivingGroupIdsProp = Some(G1)
    /\ userTable = <<[sys_id |-> "u1", email |-> <<"a">>, resolves |-> TRUE, groups |-> {G1}]>>
    /\ helper = FALSE
    /\ mailCall = NoMailCall
    /\ ThreadsIdle

NextReadOnly ==
    \/ Initialize
    \/ GetNameCall
    \/ GetKeyCall
    \/ InitializeHelper
    \/ AddTestToAddressesCall
    \/ TakeResult

SpecReadOnly == InitReadOnly /\ [][NextReadOnly]_vars

(***************************************************************************)
(* Two calls at the same time, each on an object of its own: a step of a   *)
(* thread is one read of the store or of the configuration                 *)
(***************************************************************************)

Threads == 1..2

\* A getKey(key) call about to construct its InstanceConfig, with the
\* local variable of getKey.
KeyThread(key) ==
    [op |-> "getKey", pc |-> "new", key |-> key,
     config |-> NoConfig, value |-> NULL, result |-> NULL]

\* An addTestToAddresses(recipients) call about to start on its helper,
\* with the local variables of addTestToAddresses (i counts from 1).
MailThread(recipients) ==
    [op |-> "addTestToAddresses", pc |-> "new", recipients |-> recipients,
     receivingAddresses |-> <<>>, receivingGroupIds |-> <<>>,
     i |-> 1, processedRecipients |-> <<>>, result |-> <<>>]

\* The calls a thread makes in the model.
ThreadStarts ==
    {KeyThread(key) : key \in {"k1", "k3"}}
        \cup {MailThread(recipients) :
                 recipients \in {Null,
                                 Some(<< <<"a">> >>),
                                 Some(<< <<"A">>, <<"a", "<", "a", "a", ">">> >>),
                                 Some(<< <<"<", "A", ">">>, <<"a", "a">> >>)}}

InitConcurrent ==
    /\ instanceTable \in {<<>>, <<[sys_id |-> "i1", name |-> "dev"]>>}
    /\ scopeTable \in {<<>>, <<[instance |-> "i1", key |-> "k1", value |-> "v1"]>>}
    /\ propertyTable = <<[key |-> "k1", default_value |-> "d1"]>>
    /\ instanceName = "dev"
    /\ config = NoConfig
    /\ configCall = NoCall
    /\ receivingAddressesProp = Some(<<"A">>)
    /\ receivingGroupIdsProp = Some(G1)
    /\ userTable = <<[sys_id |-> "u1", email |-> <<"a">>, resolves |-> TRUE, groups |-> {G1}]>>
    /\ helper = FALSE
    /\ mailCall = NoMailCall
    /\ threads \in [Threads -> ThreadStarts]
    /\ schedule = <<>>

\* Thread t takes a step that leaves its call as the record after.
ThreadStep(t, after) ==
    /\ threads' = [threads EXCEPT ![t] = after]
    /\ schedule' = Append(schedule, t)
    /\ UNCHANGED <<configVars, mailVars>>

\* new InstanceConfig() in a getKey thread
ThreadInitialize ==
    \E t \in Threads :
        /\ threads[t].op = "getKey" /\ threads[t].pc = "new"
        /\ ThreadStep(t, [threads[t] EXCEPT
               !.config = [constructed |-> TRUE,
                           instanceId |-> instanceName,
                           instance |-> GlideGetByName(instanceTable, instanceName)],
               !.pc = "lookup"])

\* var value = this._lookup(key); if (value !== null) return value;
ThreadLookup ==
    \E t \in Threads :
        /\ threads[t].op = "getKey" /\ threads[t].pc = "lookup"
        /\ LET value == Lookup(threads[t].config, threads[t].key)
           IN  ThreadStep(t, IF value # NULL
                             THEN [threads[t] EXCEPT !.value = value, !.result = value,
                                                     !.pc = "done"]
                             ELSE [threads[t] EXCEPT !.value = value, !.pc = "default"])

\* return this._getDefault(key);
ThreadGetDefault ==
    \E t \in Threads :
        /\ threads[t].op = "getKey" /\ threads[t].pc = "default"
        /\ ThreadStep(t, [threads[t] EXCEPT !.result = GetDefault(threads[t].key),
                                            !.pc = "done"])

\* if (!recipients || recipients.length === 0) return '';
ThreadEnter ==
    \E t \in Threads :
        /\ threads[t].op = "addTestToAddresses" /\ threads[t].pc = "new"
        /\ ThreadStep(t, IF threads[t].recipients.null \/ Len(threads[t].recipients.v) = 0
                         THEN [threads[t] EXCEPT !.result = <<>>, !.pc = "done"]
                         ELSE [threads[t] EXCEPT !.pc = "addresses"])

\* var receivingAddresses = this._getReceivingAddresses();
ThreadGetReceivingAddresses ==
    \E t \in Threads :
        /\ threads[t].op = "addTestToAddresses" /\ threads[t].pc = "addresses"
        /\ ThreadStep(t, [threads[t] EXCEPT !.receivingAddresses = GetReceivingAddresses,
                                            !.pc = "groups"])

\* var receivingGroupIds = this._getReceivingGroupIds();
ThreadGetReceivingGroupIds ==
    \E t \in Threads :
        /\ threads[t].op = "addTestToAddresses" /\ threads[t].pc = "groups"
        /\ ThreadStep(t, [threads[t] EXCEPT !.receivingGroupIds = GetReceivingGroupIds,
                                            !.pc = "loop"])

\* The loop body with processedRecipients one array shared by all helpers.
AfterProcessRecipientSharedArray(ts, t) ==
    LET recipient == ProcessRecipient(ts[t].recipients.v[ts[t].i],
                                      ts[t].receivingAddresses, ts[t].receivingGroupIds)
    IN  [u \in DOMAIN ts |->
            IF u = t
            THEN [ts[u] EXCEPT !.processedRecipients = Append(@, recipient), !.i = @ + 1]
            ELSE IF ts[u].op = "addTestToAddresses"
            THEN [ts[u] EXCEPT !.processedRecipients = Append(@, recipient)]
            ELSE ts[u]]

\* The threads after thread t ran the loop body once: the recipient
\* processed is pushed on t's own processedRecipients, i++.
AfterProcessRecipient(ts, t) ==
    LET recipient == ProcessRecipient(ts[t].recipients.v[ts[t].i],
                                      ts[t].receivingAddresses, ts[t].receivingGroupIds)
    IN  [ts EXCEPT ![t] =
            [ts[t] EXCEPT !.processedRecipients = Append(@, recipient), !.i = @ + 1]]

\* for (...; i < recipients.length; ...) { ... }, one iteration
ThreadProcessRecipient ==
    \E t \in Threads :
        /\ threads[t].op = "addTestToAddresses" /\ threads[t].pc = "loop"
        /\ threads[t].i <= Len(threads[t].recipients.v)
        /\ threads' = AfterProcessRecipient(threads, t)
        /\ schedule' = Append(schedule, t)
        /\ UNCHANGED <<configVars, mailVars>>

\* return processedRecipients.join(',');
ThreadJoin ==
    \E t \in Threads :
        /\ threads[t].op = "addTestToAddresses" /\ threads[t].pc = "loop"
        /\ threads[t].i > Len(threads[t].recipients.v)
        /\ ThreadStep(t, [threads[t] EXCEPT
               !.result = JoinComma(threads[t].processedRecipients), !.pc = "done"])

NextConcurrent ==
    \/ ThreadInitialize
    \/ ThreadLookup
    \/ ThreadGetDefault
    \/ ThreadEnter
    \/ ThreadGetReceivingAddresses
    \/ ThreadGetReceivingGroupIds
    \/ ThreadProcessRecipient
    \/ ThreadJoin

SpecConcurrent == InitConcurrent /\ [][NextConcurrent]_vars

(***************************************************************************)
(* Properties of InstanceConfig.getKey, checked under SpecConfig           *)
(***************************************************************************)

\* construction loaded an instance record
Loaded == config.constructed /\ config.instance.sys_id # NULL

\* row i of the override table is a row of the loaded instance for key
OverrideAt(i, key) ==
    /\ scopeTable[i].instance = config.instance.sys_id
    /\ scopeTable[i].key = key

\* row i of the default table is a row for key
DefaultAt(i, key) == propertyTable[i].key = key

HasOverride(key) == \E i \in 1..Len(scopeTable) : OverrideAt(i, key)

HasDefault(key) == \E i \in 1..Len(propertyTable) : DefaultAt(i, key)

\* a getKey call on a resolver that loaded an instance has returned
GetKeyReturned == configCall.op = "getKey" /\ Loaded

\* C1: whenever the store holds an override row of the loaded instance for
\* key k, getKey(k) returns the value of that row (of the first such row in
\* store order), whether or not a default row for k exists.
C1_OverrideValueReturned ==
    GetKeyReturned =>
        \A i \in 1..Len(scopeTable) :
            (OverrideAt(i, configCall.key)
                /\ \A j \in 1..(i - 1) : ~OverrideAt(j, configCall.key))
            => configCall.result = scopeTable[i].value

\* C2: when the loaded instance has no override row for k and a default
\* row for k exists, getKey(k) returns that (first) default row's
\* default_value, whatever override rows other instances have for k.
C2_DefaultValueReturned ==
    (GetKeyReturned /\ ~HasOverride(configCall.key)) =>
        \A i \in 1..Len(propertyTable) :
            (DefaultAt(i, configCall.key)
                /\ \A j \in 1..(i - 1) : ~DefaultAt(j, configCall.key))
            => configCall.result = propertyTable[i].default_value

\* C2's case: getKey(k) returned the default "d1" although another
\* instance has an override row with a value for k.
C2_Witness ==
    /\ GetKeyReturned
    /\ ~HasOverride(configCall.key)
    /\ \E i \in 1..Len(scopeTable) :
          /\ scopeTable[i].key = configCall.key
          /\ scopeTable[i].instance \in InstanceIds
          /\ scopeTable[i].value = "v1"
    /\ \E i \in 1..Len(propertyTable) :
          DefaultAt(i, configCall.key) /\ propertyTable[i].default_value = "d1"
    /\ configCall.result = "d1"

\* C3: when the loaded instance has no override row for k and no default
\* row for k exists, getKey(k) returns null (a value, not an error).
C3_NotFoundReturned ==
    (GetKeyReturned /\ ~HasOverride(configCall.key) /\ ~HasDefault(configCall.key))
        => configCall.result = NULL

\* C3's case: getKey(k) returned null while both tables hold rows with
\* non-empty values, none of them for k and the loaded instance.
C3_Witness ==
    /\ GetKeyReturned
    /\ ~HasOverride(configCall.key)
    /\ ~HasDefault(configCall.key)
    /\ \E i \in 1..Len(scopeTable) : scopeTable[i].value = "v1"
    /\ \E i \in 1..Len(propertyTable) : propertyTable[i].default_value = "d1"
    /\ configCall.result = NULL

(***************************************************************************)
(* Properties of MCK_MailHelper.addTestToAddresses, checked under SpecMail *)
(***************************************************************************)

\* addTestToAddresses returned from a call with a non-empty list
Sanitized ==
    /\ mailCall.op = "addTestToAddresses"
    /\ ~mailCall.recipients.null
    /\ Len(mailCall.recipients.v) > 0
    /\ ~mailCall.outcome.threw

\* the recipients passed and the elements pushed for them
Recipients == mailCall.recipients.v
Processed == mailCall.outcome.processed

\* sub occurs in s
Contains(s, sub) == \E i \in 0..Len(s) : OccursAt(s, sub, i)

\* the address contains the '.test' marker
HasMarker(address) == Contains(address, EmailModifier)

\* the lower-cased address is contained in the lower-cased whitelist string
InWhitelistString(address) ==
    Contains(IF receivingAddressesProp.null THEN <<>> ELSE ToLowerCase(receivingAddressesProp.v),
             ToLowerCase(address))

\* the address is, but for letter case, one of the comma-separated
\* entries of the whitelist property
OnWhitelist(address) ==
    /\ ~receivingAddressesProp.null
    /\ receivingAddressesProp.v # <<>>
    /\ LET entries == SplitAt(receivingAddressesProp.v, ",")
       IN  \E i \in 1..Len(entries) : ToLowerCase(entries[i]) = ToLowerCase(address)

\* the groups the exempt-group property names
ExemptGroups ==
    IF receivingGroupIdsProp.null \/ receivingGroupIdsProp.v = <<>> THEN {}
    ELSE LET ids == SplitAt(receivingGroupIdsProp.v, ",")
         IN  {ids[i] : i \in 1..Len(ids)}

\* the address is the email of a directory user who is a member of an
\* exempt group
IsExemptMember(address) ==
    \E i \in 1..Len(userTable) :
        /\ userTable[i].email = address
        /\ userTable[i].resolves
        /\ userTable[i].groups \cap ExemptGroups # {}

\* the position in sys_user of the first user with that email, the one a
\* lookup by email gives; 0 when no user has it
FirstUserWith(address) ==
    IF \E i \in 1..Len(userTable) : userTable[i].email = address
    THEN CHOOSE i \in 1..Len(userTable) :
             /\ userTable[i].email = address
             /\ \A j \in 1..(i - 1) : userTable[j].email # address
    ELSE 0

\* the user a lookup by that email gives is a member of an exempt group
IsLookedUpExemptMember(address) ==
    LET u == FirstUserWith(address)
    IN  /\ u # 0
        /\ userTable[u].resolves
        /\ userTable[u].groups \cap ExemptGroups # {}

\* C4: the address portion of every emitted recipient contains the
\* marker, or is contained in the whitelist, or is the email of a member of
\* an exempt group.
C4_OnlySafeAddressesEmitted ==
    Sanitized =>
        \A i \in 1..Len(Processed) :
            LET address == ExtractEmailAddress(Processed[i])
            IN  HasMarker(address) \/ InWhitelistString(address) \/ IsExemptMember(address)

\* C5: a recipient 'Name <address>' that no skip rule exempts comes out
\* with address + '.test' between the brackets and every character
\* outside the brackets as it was.
C5_OnlyBracketedPartChanged ==
    Sanitized =>
        \A i \in 1..Len(Processed) :
            LET r == Recipients[i]
                m == EmailRegexMatch(r)
                address == ExtractEmailAddress(r)
            IN  (m[1] # 0 /\ ~HasMarker(address) /\ ~InWhitelistString(address)
                    /\ ~IsExemptMember(address))
                => Processed[i] =
                       SubSeq(r, 1, m[1]) \o address \o EmailModifier \o SubSeq(r, m[2], Len(r))

\* C6: a recipient whose extracted address is, but for letter case, an
\* entry of the whitelist comes out unchanged, whatever the directory says.
C6_WhitelistedUnchanged ==
    Sanitized =>
        (/\ Len(Processed) = Len(Recipients)
         /\ \A i \in 1..Len(Recipients) :
               OnWhitelist(ExtractEmailAddress(Recipients[i])) => Processed[i] = Recipients[i])

\* C6's case: an address came out unchanged that differs in letter case
\* from the whitelist entry it matches, has no marker and no exempt user.
C6_Witness ==
    /\ Sanitized
    /\ \E i \in 1..Len(Recipients) :
          LET address == ExtractEmailAddress(Recipients[i])
          IN  /\ OnWhitelist(address)
              /\ address # <<>>
              /\ ~Contains(receivingAddressesProp.v, address)
              /\ ~HasMarker(address)
              /\ ~IsExemptMember(address)
              /\ Processed[i] = Recipients[i]

\* C7: a recipient whose extracted address already contains '.test' comes
\* out unchanged, whatever the whitelist and the groups are.
C7_AlreadyMarkedUnchanged ==
    Sanitized =>
        (/\ Len(Processed) = Len(Recipients)
         /\ \A i \in 1..Len(Recipients) :
               HasMarker(ExtractEmailAddress(Recipients[i])) => Processed[i] = Recipients[i])

\* C7's case: a wrapped recipient whose address has the marker, is not in
\* the whitelist string and is no exempt user's, came out unchanged.
C7_Witness ==
    /\ Sanitized
    /\ \E i \in 1..Len(Recipients) :
          LET address == ExtractEmailAddress(Recipients[i])
          IN  /\ EmailRegexMatch(Recipients[i])[1] # 0
              /\ HasMarker(address)
              /\ ~InWhitelistString(address)
              /\ ~IsExemptMember(address)
              /\ Processed[i] = Recipients[i]

\* C8: a recipient whose extracted address equals the email of a directory
\* user who is a member of at least one exempt group comes out unchanged,
\* on the whitelist or not.
C8_GroupMemberUnchanged ==
    Sanitized =>
        (/\ Len(Processed) = Len(Recipients)
         /\ \A i \in 1..Len(Recipients) :
               IsExemptMember(ExtractEmailAddress(Recipients[i])) => Processed[i] = Recipients[i])

\* C8 where it holds: the one user with the address is a member of the
\* second configured group only, the address is not in the whitelist string
\* and has no marker, and the recipient came out unchanged.
C8_Witness ==
    /\ Sanitized
    /\ GetReceivingGroupIds = <<G1, G2>>
    /\ \E i \in 1..Len(Recipients) :
          LET address == ExtractEmailAddress(Recipients[i])
          IN  /\ IsExemptMember(address)
              /\ \A u \in 1..Len(userTable) : userTable[u].groups = {G2}
              /\ ~InWhitelistString(address)
              /\ ~HasMarker(address)
              /\ Processed[i] = Recipients[i]

\* C8 where it fails: two users have the address as their email, the
\* first is no member of an exempt group, the second is, and the recipient
\* came out with the marker.
C8_WitnessSecondUserMember ==
    /\ Sanitized
    /\ \E i \in 1..Len(Recipients) :
          LET address == ExtractEmailAddress(Recipients[i])
          IN  /\ Len(userTable) = 2
              /\ userTable[1].email = address /\ userTable[2].email = address
              /\ userTable[1].groups \cap ExemptGroups = {}
              /\ userTable[2].resolves /\ userTable[2].groups \cap ExemptGroups # {}
              /\ ~InWhitelistString(address)
              /\ ~HasMarker(address)
              /\ Processed[i] = ModifyRecipient(Recipients[i], address)
              /\ Processed[i] # Recipients[i]

RECURSIVE JoinOffset(_, _)
\* the 0-based position in the joined string of element i of list
JoinOffset(list, i) ==
    IF i <= 1 THEN 0 ELSE JoinOffset(list, i - 1) + Len(list[i - 1]) + 1

\* result is the elements of list in order with one ',' between neighbours
IsCommaJoin(result, list) ==
    /\ Len(list) > 0
    /\ Len(result) = JoinOffset(list, Len(list)) + Len(list[Len(list)])
    /\ \A i \in 1..Len(list) :
          /\ OccursAt(result, list[i], JoinOffset(list, i))
          /\ i > 1 => result[JoinOffset(list, i)] = ","

\* C9: for a non-empty list the result is the comma-join, in input order,
\* of one processed element per recipient, and element i is what the
\* helper makes of recipient i alone under the same configuration and
\* directory.
C9_JoinOfIndependentElements ==
    Sanitized =>
        /\ Len(Processed) = Len(Recipients)
        /\ IsCommaJoin(mailCall.outcome.result, Processed)
        /\ \A i \in 1..Len(Recipients) :
              Processed[i] =
                  ProcessRecipient(Recipients[i], GetReceivingAddresses, GetReceivingGroupIds)

\* C9's case: a call with two different non-empty recipients, the first
\* left as it was and the second modified.
C9_Witness ==
    /\ Sanitized
    /\ Len(Recipients) = 2
    /\ Len(Processed) = 2
    /\ Recipients[1] # <<>>
    /\ Recipients[2] # <<>>
    /\ Recipients[1] # Recipients[2]
    /\ Processed[1] = Recipients[1]
    /\ Processed[2] = Recipients[2] \o EmailModifier
    /\ mailCall.outcome.result = Recipients[1] \o <<",">> \o Recipients[2] \o EmailModifier

\* C10: called with an empty list or with null, addTestToAddresses
\* returns the empty string.
C10_EmptyInputEmptyString ==
    (/\ mailCall.op = "addTestToAddresses"
     /\ (mailCall.recipients.null \/ Len(mailCall.recipients.v) = 0))
    => (~mailCall.outcome.threw /\ mailCall.outcome.result = <<>>)

\* C10's case: the call with null returned the empty string.
C10_Witness ==
    /\ mailCall.op = "addTestToAddresses"
    /\ mailCall.recipients.null
    /\ ~mailCall.outcome.threw
    /\ mailCall.outcome.result = <<>>

(***************************************************************************)
(* Properties of getKey(null) and getKey(""), checked under SpecLiteralKey *)
(***************************************************************************)

\* row i of the override table matches the resolver's instance value
\* (null when none was loaded) and key
OverrideMatches(i, key) ==
    /\ scopeTable[i].instance = config.instance.sys_id
    /\ scopeTable[i].key = key

\* C11: getKey(null) and getKey("") return a value (no error) found by
\* the usual override-then-default lookup with the key taken literally:
\* null when no override row and no default row has that literal key, the
\* first matching override row's value when it is not null, and otherwise
\* the first default row's default_value.
C11_LiteralKeyLookup ==
    (configCall.op = "getKey" /\ configCall.key \in {NULL, ""}) =>
        LET key == configCall.key
            overrides == {i \in 1..Len(scopeTable) : OverrideMatches(i, key)}
            defaults == {i \in 1..Len(propertyTable) : propertyTable[i].key = key}
            firstOverride == CHOOSE i \in overrides : \A j \in overrides : i <= j
            firstDefault == CHOOSE i \in defaults : \A j \in defaults : i <= j
        IN  /\ (overrides = {} /\ defaults = {}) => configCall.result = NULL
            /\ (overrides # {} /\ scopeTable[firstOverride].value # NULL)
                  => configCall.result = scopeTable[firstOverride].value
            /\ (overrides = {} /\ defaults # {})
                  => configCall.result = propertyTable[firstDefault].default_value

\* C11's case: getKey("") returned null although rows with the key null
\* and non-empty values exist, and getKey of a literal key finds its row.
C11_Witness ==
    /\ configCall.op = "getKey"
    /\ configCall.key = ""
    /\ configCall.result = NULL
    /\ \E i \in 1..Len(propertyTable) :
          propertyTable[i].key = NULL /\ propertyTable[i].default_value = "d1"

\* C11's other case: getKey(null) returned the default of the row whose
\* key is null.
C11_WitnessFound ==
    /\ configCall.op = "getKey"
    /\ configCall.key = NULL
    /\ configCall.result = "d1"

(***************************************************************************)
(* Properties of construction and getName, checked under SpecConfig        *)
(***************************************************************************)

\* the instance table holds a record named like the configured identifier
InstanceRecordExists ==
    \E i \in 1..Len(instanceTable) : instanceTable[i].name = instanceName

\* C12: construction succeeds whether or not an instance record is named
\* like the configured identifier; afterwards getName() returns the
\* configured identifier when such a record exists (it was loaded) and null
\* when none does.
C12_NameIsIdentifierOrNull ==
    /\ config.constructed =>
          /\ config.instanceId = instanceName
          /\ InstanceRecordExists <=> config.instance.sys_id # NULL
    /\ configCall.op = "getName" =>
          /\ InstanceRecordExists => configCall.result = instanceName
          /\ ~InstanceRecordExists => configCall.result = NULL

\* C12's case: the table holds instance records, none named like the
\* configured identifier; construction went through and getName() gave
\* null.
C12_Witness ==
    /\ config.constructed
    /\ Len(instanceTable) > 0
    /\ ~InstanceRecordExists
    /\ configCall.op = "getName"
    /\ configCall.result = NULL


(***************************************************************************)
(* Properties of the skip rules, checked under SpecMailRules               *)
(***************************************************************************)

\* the '<...>' pattern does not match the recipient
Unbracketed(r) == EmailRegexMatch(r)[1] = 0

\* C13: addTestToAddresses raises no error for any recipient strings, and
\* a recipient the '<...>' pattern does not match is handled with the
\* whole string as its address: it comes out unchanged when the whole
\* string has the marker or is contained in the whitelist; otherwise the
\* user lookup is made for the whole string, and the recipient comes out
\* unchanged when the user it gives is an exempt member, and else as
\* modifyRecipient makes it from the whole string.
C13_MalformedHandledWhole ==
    mailCall.op = "addTestToAddresses" =>
        /\ ~mailCall.outcome.threw
        /\ Sanitized =>
              /\ Len(Processed) = Len(Recipients)
              /\ \A i \in 1..Len(Recipients) :
                    LET r == Recipients[i]
                    IN  Unbracketed(r) =>
                            IF HasMarker(r) \/ InWhitelistString(r)
                            THEN Processed[i] = r
                            ELSE /\ mailCall.calls[i] # <<>>
                                 /\ mailCall.calls[i][1] = DirectoryCall("get", r)
                                 /\ Processed[i] =
                                        IF IsLookedUpExemptMember(r) THEN r
                                        ELSE ModifyRecipient(r, r)

\* C13's case: a recipient with an unbalanced angle bracket, which no skip
\* rule exempts, came out with '.test' after the whole string.
C13_Witness ==
    /\ Sanitized
    /\ \E i \in 1..Len(Recipients) :
          LET r == Recipients[i]
          IN  /\ Unbracketed(r)
              /\ Contains(r, <<"<">>) \/ Contains(r, <<">">>)
              /\ ~HasMarker(r) /\ ~InWhitelistString(r) /\ ~IsExemptMember(r)
              /\ Processed[i] = r \o EmailModifier


\* the whitelist property is one entry: not empty and without a comma
SingleEntryWhitelist ==
    /\ ~receivingAddressesProp.null
    /\ receivingAddressesProp.v # <<>>
    /\ ~Contains(receivingAddressesProp.v, <<",">>)

\* the address has the single whitelist entry inside it and is longer
EntryInsideAddress(address) ==
    /\ SingleEntryWhitelist
    /\ Contains(ToLowerCase(address), ToLowerCase(receivingAddressesProp.v))
    /\ Len(address) > Len(receivingAddressesProp.v)

\* C14 as stated: with a single-entry whitelist, a recipient whose
\* address has the entry inside it ('ajohn@x.com' for the entry
\* 'john@x.com') is treated as whitelisted and comes out unchanged.
C14_EntryInsideAddressExempt ==
    Sanitized =>
        (/\ Len(Processed) = Len(Recipients)
         /\ \A i \in 1..Len(Recipients) :
               EntryInsideAddress(ExtractEmailAddress(Recipients[i]))
                   => Processed[i] = Recipients[i])

\* C14, amended: the whitelist check looks for the lower-cased address
\* inside the lower-cased whitelist string.  A recipient whose address is
\* contained in that string comes out unchanged; one whose address is not
\* contained in it (as an address with the entry inside it and more
\* around it is not), has no marker and is no exempt member's email comes
\* out changed.
C14_AddressInsideWhitelistExempt ==
    Sanitized =>
        (/\ Len(Processed) = Len(Recipients)
         /\ \A i \in 1..Len(Recipients) :
               LET address == ExtractEmailAddress(Recipients[i])
               IN  /\ InWhitelistString(address) => Processed[i] = Recipients[i]
                   /\ (~InWhitelistString(address) /\ ~HasMarker(address)
                          /\ ~IsExemptMember(address))
                      => Processed[i] # Recipients[i])

\* C14's case: the whitelist is a single entry, the recipient is a bare
\* address with that entry inside it, and it came out with '.test'.
C14_Witness ==
    /\ Sanitized
    /\ \E i \in 1..Len(Recipients) :
          /\ Unbracketed(Recipients[i])
          /\ EntryInsideAddress(Recipients[i])
          /\ Processed[i] = Recipients[i] \o EmailModifier

\* The other direction: an address that is a proper part of the single
\* whitelist entry, with no marker and no exempt user, came out unchanged.
C14_WitnessPartOfEntry ==
    /\ Sanitized
    /\ SingleEntryWhitelist
    /\ \E i \in 1..Len(Recipients) :
          LET address == ExtractEmailAddress(Recipients[i])
          IN  /\ address # <<>>
              /\ InWhitelistString(address)
              /\ ~OnWhitelist(address)
              /\ ~HasMarker(address)
              /\ ~IsExemptMember(address)
              /\ Processed[i] = Recipients[i]


(***************************************************************************)
(* The order of the skip rules, checked under SpecMailRules                *)
(***************************************************************************)

\* the calls of the sequence calls that are calls of the operation call
CallsOf(calls, call) == SelectSeq(calls, LAMBDA c : c.call = call)

\* C18: per recipient, no directory call is made when the address has the
\* marker or is contained in the whitelist, and the recipient comes out
\* unchanged; otherwise exactly one user lookup is made, first, for the
\* extracted address, and what is resolved is the first user with that
\* email; the isMemberOf calls test the configured group ids in order, one
\* each, and none follows a call for a group the user looked up belongs
\* to, after which the recipient comes out unchanged.
C18_RulesInOrder ==
    Sanitized =>
        /\ Len(mailCall.calls) = Len(Recipients)
        /\ Len(Processed) = Len(Recipients)
        /\ \A i \in 1..Len(Recipients) :
              LET address == ExtractEmailAddress(Recipients[i])
                  calls == mailCall.calls[i]
                  checks == CallsOf(calls, "isMemberOf")
              IN  IF HasMarker(address) \/ InWhitelistString(address)
                  THEN calls = <<>> /\ Processed[i] = Recipients[i]
                  ELSE /\ calls # <<>>
                       /\ calls[1] = DirectoryCall("get", address)
                       /\ Len(CallsOf(calls, "get")) = 1
                       /\ Len(CallsOf(calls, "getUserByID")) <= 1
                       /\ \A c \in 1..Len(calls) :
                             calls[c].call = "getUserByID" =>
                                 /\ FirstUserWith(address) # 0
                                 /\ calls[c].arg = <<userTable[FirstUserWith(address)].sys_id>>
                       /\ Len(checks) <= Len(GetReceivingGroupIds)
                       /\ \A k \in 1..Len(checks) :
                             /\ checks[k].arg = GetReceivingGroupIds[k]
                             /\ calls[Len(calls) - Len(checks) + k] = checks[k]
                             /\ checks[k].arg \in userTable[FirstUserWith(address)].groups
                                   => k = Len(checks) /\ Processed[i] = Recipients[i]

\* C18's case: two exempt groups are configured, the recipient's user is
\* a member of both, the address has no marker and is not in the
\* whitelist; one lookup and one membership check were made.
C18_Witness ==
    /\ Sanitized
    /\ GetReceivingGroupIds = <<G1, G2>>
    /\ \E i \in 1..Len(Recipients) :
          LET address == ExtractEmailAddress(Recipients[i])
          IN  /\ ~HasMarker(address) /\ ~InWhitelistString(address)
              /\ \E u \in 1..Len(userTable) :
                    userTable[u].email = address /\ userTable[u].groups = {G1, G2}
              /\ mailCall.calls[i] = <<DirectoryCall("get", address),
                                       DirectoryCall("getUserByID", <<"u1">>),
                                       DirectoryCall("isMemberOf", G1)>>
              /\ Processed[i] = Recipients[i]

\* C18 with two users of one email: the first is a member of no group,
\* the second of the first group; the first was resolved, both group ids
\* were tested for it, and the recipient came out with the marker.
C18_WitnessSharedEmail ==
    /\ Sanitized
    /\ GetReceivingGroupIds = <<G1, G2>>
    /\ \E i \in 1..Len(Recipients) :
          LET address == ExtractEmailAddress(Recipients[i])
          IN  /\ Len(userTable) = 2
              /\ userTable[1].email = address /\ userTable[2].email = address
              /\ userTable[1].resolves /\ userTable[1].groups = {}
              /\ G1 \in userTable[2].groups
              /\ mailCall.calls[i] = <<DirectoryCall("get", address),
                                       DirectoryCall("getUserByID", <<userTable[1].sys_id>>),
                                       DirectoryCall("isMemberOf", G1),
                                       DirectoryCall("isMemberOf", G2)>>
              /\ Processed[i] # Recipients[i]

(***************************************************************************)
(* Properties checked under SpecMailDollar                                 *)
(***************************************************************************)

\* C15: a bare-address recipient (no '<...>' match) whose address has no
\* marker, is not contained in the whitelist and is no exempt member's
\* email (no directory user has it, or one who belongs to no exempt group)
\* comes out as the recipient string with '.test' appended at its end.
C15_BareAddressSuffixed ==
    Sanitized =>
        (/\ Len(Processed) = Len(Recipients)
         /\ \A i \in 1..Len(Recipients) :
               LET r == Recipients[i]
               IN  (Unbracketed(r) /\ ~HasMarker(r) /\ ~InWhitelistString(r)
                       /\ ~IsExemptMember(r))
                   => Processed[i] = r \o EmailModifier)

\* C15's case where it holds: a bare address with a '$' that begins no
\* replacement pattern came out with '.test' appended.
C15_WitnessSuffixed ==
    /\ Sanitized
    /\ \E i \in 1..Len(Recipients) :
          LET r == Recipients[i]
          IN  /\ Unbracketed(r) /\ ~HasMarker(r) /\ ~InWhitelistString(r)
              /\ ~IsExemptMember(r)
              /\ Contains(r, <<"$">>)
              /\ Processed[i] = r \o EmailModifier


(***************************************************************************)
(* Properties checked under SpecStoreFailure                               *)
(***************************************************************************)

\* a getKey call was made on a store that failed one of its queries
QueryFailed ==
    /\ configCall.op = "getKey"
    /\ \/ configCall.fault = 1
       \/ configCall.fault = 2 /\ Lookup(config, configCall.key) = NULL

\* the table whose query the store failed
FailedTable == IF configCall.fault = 1 THEN ScopeTableName ELSE PropertyTableName

\* C16: when the store fails a query of getKey, the call ends with the
\* store's error and no value; the failed query is the last one issued, no
\* table is queried twice, and after a failed override query the default
\* table is not queried.
C16_StoreErrorPropagates ==
    QueryFailed =>
        LET run == configCall.run
        IN  /\ run.threw
            /\ run.error = StoreError(FailedTable)
            /\ run.result = NULL
            /\ run.queries[Len(run.queries)] = FailedTable
            /\ \A i, j \in 1..Len(run.queries) : run.queries[i] = run.queries[j] => i = j
            /\ configCall.fault = 1 =>
                  \A i \in 1..Len(run.queries) : run.queries[i] # PropertyTableName

\* C16's case: the override query failed while a default row with a value
\* exists for the key; the call threw and did not query the default table.
C16_Witness ==
    /\ QueryFailed
    /\ configCall.fault = 1
    /\ \E i \in 1..Len(propertyTable) :
          /\ propertyTable[i].key = configCall.key
          /\ propertyTable[i].default_value = "d1"
    /\ configCall.run.threw
    /\ configCall.run.queries = <<ScopeTableName>>

\* The default query failed after an override lookup that found nothing.
C16_WitnessDefaultQuery ==
    /\ QueryFailed
    /\ configCall.fault = 2
    /\ configCall.run.threw
    /\ configCall.run.queries = <<ScopeTableName, PropertyTableName>>


(***************************************************************************)
(* Properties of MCK_MailHelper.modifyRecipient, checked under SpecMail    *)
(***************************************************************************)

\* modifyRecipient was called with the arguments of its documentation's
\* example
DocExampleCalled ==
    /\ mailCall.op = "modifyRecipient"
    /\ mailCall.originalEmailAddress = DocExampleOriginal
    /\ mailCall.separatedEmail = DocExampleSeparated

\* C17: modifyRecipient('John Doe <john@company.com>',
\* 'john@company.com') returns 'John Doe <john@company.test.com>', as the
\* example in the function's documentation says.
C17_DocExampleAsDocumented ==
    DocExampleCalled => mailCall.result = DocExampleResult

\* What the code returns for the documented call:
\* 'John Doe <john@company.com.test>', the text before the address, the
\* address, '.test', the closing bracket.
C17_DocExampleSuffixAfterAddress ==
    DocExampleCalled =>
        mailCall.result =
            SubSeq(DocExampleOriginal, 1, 10) \o DocExampleSeparated
                \o EmailModifier \o <<">">>

\* The documented call was made and returned a string five characters
\* longer than its first argument, ending in '.test>'.
C17_Witness ==
    /\ DocExampleCalled
    /\ Len(mailCall.result) = Len(DocExampleOriginal) + Len(EmailModifier)
    /\ OccursAt(mailCall.result, EmailModifier \o <<">">>, Len(DocExampleOriginal) - 1)


(***************************************************************************)
(* Frame of the read operations, checked under SpecReadOnly                *)
(***************************************************************************)

\* the resolver a construction on the present store and configuration
\* gives
FreshConfig ==
    [constructed |-> TRUE,
     instanceId |-> instanceName,
     instance |-> GlideGetByName(instanceTable, instanceName)]

\* A step leaves the rows of every table and the configuration values as
\* they were, leaves a constructed resolver as it was, and a getKey(k) it
\* ends gives what getKey(k) gives on a resolver just constructed, and
\* what the getKey(k) before it gave.
ReadOnlyStep ==
    /\ UNCHANGED <<instanceTable, scopeTable, propertyTable, userTable>>
    /\ UNCHANGED <<instanceName, receivingAddressesProp, receivingGroupIdsProp>>
    /\ config.constructed => config' = config
    /\ configCall'.op = "getKey" =>
          /\ configCall'.result = GetKey(FreshConfig, configCall'.key)
          /\ (configCall.op = "getKey" /\ configCall.key = configCall'.key)
                => configCall'.result = configCall.result

\* C19: getName, getKey and addTestToAddresses only read: every step
\* leaves the store's rows, the configuration values and the resolver's
\* captured instance unchanged, so getKey(k) returns the same value
\* whatever calls preceded it.
C19_ReadsOnly == [][ReadOnlyStep]_vars

\* C19's case: getKey("k1") has returned the override's value on a
\* resolver that loaded its instance while a result of addTestToAddresses
\* with a modified recipient is at hand.
C19_Witness ==
    /\ configCall.op = "getKey"
    /\ configCall.key = "k1"
    /\ configCall.result = "v1"
    /\ config.instance.sys_id = "i1"
    /\ Sanitized
    /\ \E i \in 1..Len(Recipients) : Processed[i] # Recipients[i]


(***************************************************************************)
(* Independence of calls on separate objects, checked under SpecConcurrent *)
(***************************************************************************)

\* what the call of thread t returns when it runs alone on the present
\* store
AloneResult(t) ==
    IF threads[t].op = "getKey"
    THEN GetKey(FreshConfig, threads[t].key)
    ELSE AddTestToAddresses(threads[t].recipients).result

\* steps of both threads lie between two steps of thread t
Interleaved(t) ==
    \E i, j, k \in 1..Len(schedule) :
        /\ i < j /\ j < k
        /\ schedule[i] = t /\ schedule[j] # t /\ schedule[k] = t

\* C20: whatever the order in which the reads of two calls on separate
\* objects are interleaved, a call that has returned has returned what it
\* returns when run alone on the same store.
C20_InterleavingIndependent ==
    \A t \in DOMAIN threads :
        threads[t].pc = "done" => threads[t].result = AloneResult(t)

\* C20's case: two addTestToAddresses calls with different two-recipient
\* lists have both returned, different strings, after steps of each were
\* taken between steps of the other.
C20_Witness ==
    /\ DOMAIN threads = Threads
    /\ \A t \in Threads :
          /\ threads[t].op = "addTestToAddresses"
          /\ threads[t].pc = "done"
          /\ Len(threads[t].recipients.v) = 2
          /\ Interleaved(t)
    /\ threads[1].recipients # threads[2].recipients
    /\ threads[1].result # threads[2].result

\* Two getKey calls on separate resolvers, one returning the override and
\* one null, with their reads interleaved.
C20_WitnessGetKey ==
    /\ DOMAIN threads = Threads
    /\ \A t \in Threads :
          threads[t].op = "getKey" /\ threads[t].pc = "done" /\ Interleaved(t)
    /\ threads[1].result = "v1"
    /\ threads[2].result = NULL


(***************************************************************************)
(* Sanitizing twice, checked under SpecMailTwice                           *)
(***************************************************************************)

\* addTestToAddresses returned from a call on the recipients an earlier
\* call produced
SanitizedAgain ==
    /\ mailCall.op = "addTestToAddresses"
    /\ "first" \in DOMAIN mailCall
    /\ ~mailCall.outcome.threw

\* C21: processing the result of processing a recipient returns that
\* result unchanged, under the same whitelist, groups and directory: no
\* recipient gets a second '.test'.
C21_ProcessingIdempotent ==
    SanitizedAgain =>
        \A i \in 1..Len(Recipients) :
            Len(Processed) = Len(Recipients) /\ Processed[i] = Recipients[i]

\* C21's case where it holds: a recipient that was given '.test' the first
\* time came back unchanged the second time.
C21_WitnessStable ==
    /\ SanitizedAgain
    /\ ~mailCall.first.null
    /\ \E i \in 1..Len(Recipients) :
          /\ i <= Len(mailCall.first.v)
          /\ Recipients[i] # mailCall.first.v[i]
          /\ Processed[i] = Recipients[i]


(***************************************************************************)
(* getKey on a resolver that loaded no instance, checked under SpecConfig  *)
(***************************************************************************)

\* a getKey call has returned on a resolver whose construction found no
\* instance record
GetKeyReturnedUnloaded ==
    /\ configCall.op = "getKey"
    /\ config.constructed
    /\ config.instance.sys_id = NULL

\* C22: when construction loaded no instance record, getKey(k) returns
\* the (first) default row's default_value if a default row for k exists
\* and null otherwise; no override row's value is returned, whatever its
\* instance reference is, an empty one included.
C22_UnloadedIgnoresOverrides ==
    GetKeyReturnedUnloaded =>
        /\ ~HasDefault(configCall.key) => configCall.result = NULL
        /\ \A i \in 1..Len(propertyTable) :
              (DefaultAt(i, configCall.key)
                  /\ \A j \in 1..(i - 1) : ~DefaultAt(j, configCall.key))
              => configCall.result = propertyTable[i].default_value

\* C22's case where it holds: override rows of instances exist for k with
\* a value, none with an empty instance reference, and getKey(k) gave the
\* default.
C22_WitnessDefault ==
    /\ GetKeyReturnedUnloaded
    /\ \E i \in 1..Len(scopeTable) :
          /\ scopeTable[i].key = configCall.key
          /\ scopeTable[i].instance \in InstanceIds
          /\ scopeTable[i].value = "v1"
    /\ \A i \in 1..Len(scopeTable) : scopeTable[i].instance # NULL
    /\ configCall.result = "d1"


(***************************************************************************)
(* The empty address, checked under SpecMailRules                          *)
(***************************************************************************)

\* C23: a recipient whose extracted address is the empty string comes out
\* unchanged whatever the whitelist property is (absent and empty
\* included), no directory call is made for it, and no modifyRecipient
\* call of addTestToAddresses has the empty string as its address.
C23_EmptyAddressUnchanged ==
    Sanitized =>
        /\ Len(Processed) = Len(Recipients)
        /\ Len(mailCall.calls) = Len(Recipients)
        /\ Len(mailCall.modifyCalls) = Len(Recipients)
        /\ \A i \in 1..Len(Recipients) :
              /\ ExtractEmailAddress(Recipients[i]) = <<>> =>
                    /\ Processed[i] = Recipients[i]
                    /\ mailCall.calls[i] = <<>>
              /\ \A k \in 1..Len(mailCall.modifyCalls[i]) :
                    mailCall.modifyCalls[i][k][2] # <<>>

\* C23's case: with the whitelist property absent or empty, a recipient
\* of the form 'a<>' came out unchanged next to a recipient for which
\* modifyRecipient was called.
C23_Witness ==
    /\ Sanitized
    /\ GetReceivingAddresses = <<>>
    /\ \E i, j \in 1..Len(Recipients) :
          /\ Recipients[i] # <<>>
          /\ ExtractEmailAddress(Recipients[i]) = <<>>
          /\ Processed[i] = Recipients[i]
          /\ mailCall.calls[i] = <<>>
          /\ mailCall.modifyCalls[j] # <<>>

\* The empty recipient came out unchanged with the whitelist property
\* set to the empty string.
C23_WitnessEmptyRecipient ==
    /\ Sanitized
    /\ receivingAddressesProp = Some(<<>>)
    /\ \E i \in 1..Len(Recipients) :
          Recipients[i] = <<>> /\ Processed[i] = <<>> /\ mailCall.calls[i] = <<>>

====
